---- MODULE Spec2Model ----
(***************************************************************************)
(* dvd-rw: the cassette (DVD) matching / replay engine of                  *)
(* src/dvd_rw/models.py, the scoped loader of src/dvd_rw/loader.py and the *)
(* active-cassette stack and dispatch the loader and the tests rely on.    *)
(***************************************************************************)
EXTENDS Integers, Sequences, FiniteSets, TLC

VARIABLES
    cfg,        \* the matcher configuration every loader is constructed with
    files,      \* file path -> what is stored at that path
    dvd,        \* loader -> its self.dvd (NoDVD or a DVD object)
    stack,      \* the active-cassette stack, bottom first (loaders own the DVDs)
    scopes,     \* the with-blocks currently entered, outermost first
    served,     \* history: per loader, the log indices lookups have returned
    last,       \* the last call made and what its caller got back
    calls       \* thread -> the record_request call it is in the middle of

vars == <<cfg, files, dvd, stack, scopes, served, last, calls>>

(***************************************************************************)
(* Bounds of the model.                                                    *)
(***************************************************************************)
MaxLog == 2

MaxRecorded == 1

MaxFailures == 1

(***************************************************************************)
(* Values.  Every value handed around is a record with a tag, so that any  *)
(* two of them can be compared.                                            *)
(***************************************************************************)
None == [tag |-> "None"]
NoDVD == [tag |-> "NoDVD"]
NoFile == [tag |-> "NoFile"]
EmptyFile == [tag |-> "EmptyFile"]

Loaders == {"L1", "L2"}

file_path(l) == IF l = "L1" THEN "fA" ELSE "fB"

Paths == {file_path(l) : l \in Loaders}

\* The threads that may call record_request on one cassette at the same time.
Threads == {"T1", "T2"}

NoCall == [tag |-> "NoCall"]

\* ---- Request (models.py 11-34) ------------------------------------------
Url(scheme, netloc, path, query) ==
    [scheme |-> scheme, netloc |-> netloc, path |-> path, query |-> query]

Request(headers, method, url) ==
    [tag |-> "Request", headers |-> headers, method |-> method, url |-> url]

ReqItems == Request(<<>>, "GET", Url("https", "example.com", "/items", <<>>))
ReqItemsQ == Request(<<>>, "GET", Url("https", "example.com", "/items", <<<<"a", "1">>>>))
ReqOther == Request(<<>>, "GET", Url("https", "example.com", "/other", <<>>))
ReqLive == Request(<<>>, "GET", Url("https", "example.com", "/live", <<>>))

Requests == {ReqItems, ReqItemsQ, ReqOther, ReqLive}

LowerCase ==
    [s \in {"Example.COM", "Authorization", "AUTHORIZATION", "X-Other"} |->
        CASE s = "Example.COM" -> "example.com"
          [] s \in {"Authorization", "AUTHORIZATION"} -> "authorization"
          [] s = "X-Other" -> "x-other"]

Lower(s) == IF s \in DOMAIN LowerCase THEN LowerCase[s] ELSE s

host(r) == Lower(r.url.netloc)

path(r) == r.url.path

scheme(r) == r.url.scheme

\* parse_qs: key -> list of its values, the keys in order of first appearance,
\* pairs with a blank value dropped.
RECURSIVE parse_qs(_)
parse_qs(q) ==
    IF q = <<>> THEN <<>>
    ELSE LET init == parse_qs(SubSeq(q, 1, Len(q) - 1))
             kv == q[Len(q)]
             pos == {i \in 1..Len(init) : init[i][1] = kv[1]}
         IN  IF kv[2] = "" THEN init
             ELSE IF pos = {} THEN Append(init, <<kv[1], <<kv[2]>>>>)
             ELSE LET i == CHOOSE j \in pos : TRUE
                  IN  [init EXCEPT ![i] = <<kv[1], Append(init[i][2], kv[2])>>]

query(r) == parse_qs(r.url.query)

\* ---- Response, RequestExceptionInfo (models.py 37-51) ------------------
Response(status, headers, body) ==
    [tag |-> "Response", status |-> status, headers |-> headers, body |-> body]

RequestExceptionInfo(exc_type, message) ==
    [tag |-> "RequestExceptionInfo", exc_type |-> exc_type, message |-> message]

\* An exception object: its class, str() of it, and whether a request is attached.
Exc(cls, message, request) ==
    [tag |-> "Exception", cls |-> cls, message |-> message, request |-> request]

from_exception_ClassName(exc) == RequestExceptionInfo(exc.cls, exc.cls)

from_exception(exc) == RequestExceptionInfo(exc.cls, exc.message)

RespA == Response(200, <<>>, "ok-record")

ConnFailed == Exc("httpx.ConnectError", "conn failed", TRUE)

\* ---- Matcher, BUILTIN_MATCHER_HASHERS (models.py 54-72) ----------------
BUILTIN_MATCHER_HASHERS(matcher, r) ==
    CASE matcher = "host" -> <<"host", host(r)>>
      [] matcher = "method" -> <<"method", r.method>>
      [] matcher = "path" -> <<"path", path(r)>>
      [] matcher = "query" -> <<"query", query(r)>>
      [] matcher = "headers" -> <<"headers", r.headers>>
      [] matcher = "scheme" -> <<"scheme", scheme(r)>>

\* The extra matchers a loader may be given: predicates of (recorded, incoming).
ExtraMatcher(name, rec_request, request) ==
    CASE name = "same_query" -> rec_request.url.query = request.url.query

\* ---- Exception classes of the calling environment ----------------------
\* What calling a class gives: "ok" builds an instance, "TypeError" is the
\* constructor rejecting the argument shape, "Error" is the constructor raising
\* an error of its own.  bases: the built-in classes it derives from.
ExcClasses ==
    [c \in {"httpx.ConnectError", "MessageOnly", "NoSuchShape", "CtorRaises",
            "BareRaises", "TypeErrorChild", "BaseOnly"} |->
        CASE c = "httpx.ConnectError" ->
                [with_request |-> "ok", bare |-> "ok", bases |-> {"Exception"}]
          [] c = "MessageOnly" ->
                [with_request |-> "TypeError", bare |-> "ok", bases |-> {"Exception"}]
          [] c = "NoSuchShape" ->
                [with_request |-> "TypeError", bare |-> "TypeError", bases |-> {"Exception"}]
          [] c = "CtorRaises" ->
                [with_request |-> "Error", bare |-> "Error", bases |-> {"Exception"}]
          [] c = "BareRaises" ->
                [with_request |-> "TypeError", bare |-> "Error", bases |-> {"Exception"}]
          [] c = "TypeErrorChild" ->
                [with_request |-> "ok", bare |-> "ok", bases |-> {"TypeError", "Exception"}]
          [] c = "BaseOnly" ->
                [with_request |-> "TypeError", bare |-> "ok", bases |-> {}]]

Bases(cls) ==
    CASE cls = "TypeError" -> {"TypeError", "Exception"}
      [] cls = "ValueError" -> {"ValueError", "Exception"}
      [] cls = "RuntimeError" -> {"RuntimeError", "Exception"}
      [] cls = "httpx.RequestError" -> {"httpx.RequestError", "Exception"}
      [] cls = "CannotRecord" -> {"CannotRecord", "Exception"}
      [] OTHER -> ExcClasses[cls].bases \cup {cls}

isinstance(exc, cls) == cls \in Bases(exc.cls)

\* What `raise exc_cls(message, request=req_obj)` (with_request) or
\* `raise exc_cls(message)` raises: the instance, or the constructor's own error.
RaiseNew(exc_cls, message, with_request) ==
    LET how == IF exc_cls = "httpx.RequestError" THEN "ok"
               ELSE IF with_request THEN ExcClasses[exc_cls].with_request
               ELSE ExcClasses[exc_cls].bare
    IN  CASE how = "ok" -> Exc(exc_cls, message, with_request)
          [] how = "TypeError" -> Exc("TypeError", "unexpected arguments", FALSE)
          [] how = "Error" -> Exc("ValueError", "constructor failed", FALSE)

\* ---- DVD (models.py 88-178) --------------------------------------------
\* _match_counts and _hashed_requests are defaultdicts: a key that was never
\* written reads as 0 / the empty list.
DVD(recorded_requests, from_file, match_on, extra_matchers) ==
    [tag |-> "DVD",
     recorded_requests |-> recorded_requests,
     match_counts |-> <<>>,
     hashed_requests |-> <<>>,
     from_file |-> from_file,
     dirty |-> FALSE,
     match_on |-> match_on,
     extra_matchers |-> extra_matchers]

MatchCount(d, index) ==
    IF index \in DOMAIN d.match_counts THEN d.match_counts[index] ELSE 0

Bucket(hashed_requests, key) ==
    IF key \in DOMAIN hashed_requests THEN hashed_requests[key] ELSE <<>>

BucketPrepend(hashed_requests, key, triple) ==
    IF key \in DOMAIN hashed_requests
    THEN [hashed_requests EXCEPT ![key] = <<triple>> \o @]
    ELSE hashed_requests @@ (key :> <<triple>>)

BucketAppend(hashed_requests, key, triple) ==
    IF key \in DOMAIN hashed_requests
    THEN [hashed_requests EXCEPT ![key] = Append(@, triple)]
    ELSE hashed_requests @@ (key :> <<triple>>)

Increment(match_counts, index) ==
    IF index \in DOMAIN match_counts
    THEN [match_counts EXCEPT ![index] = @ + 1]
    ELSE match_counts @@ (index :> 1)

RECURSIVE IncrementAll(_, _)
IncrementAll(match_counts, found) ==
    IF found = <<>> THEN match_counts
    ELSE IncrementAll(Increment(match_counts, found[1][1]), Tail(found))

_get_request_key_FirstOnly(d, request) ==
    [i \in 1..1 |-> BUILTIN_MATCHER_HASHERS(d.match_on[i], request)]

_get_request_key(d, request) ==
    [i \in 1..Len(d.match_on) |-> BUILTIN_MATCHER_HASHERS(d.match_on[i], request)]

RECURSIVE IndexFrom(_, _, _)
IndexFrom(d, n, hashed_requests) ==
    IF n > Len(d.recorded_requests) THEN hashed_requests
    ELSE LET req == d.recorded_requests[n][1]
             val == d.recorded_requests[n][2]
         IN  IndexFrom(d, n + 1,
                 BucketAppend(hashed_requests, _get_request_key(d, req), <<n - 1, req, val>>))

rebuild_index_KeepsCounts(d) ==
    [d EXCEPT !.hashed_requests = IndexFrom(d, 1, <<>>)]

rebuild_index_NoClear(d) ==
    [d EXCEPT !.hashed_requests = IndexFrom(d, 1, d.hashed_requests),
              !.match_counts = <<>>]

rebuild_index_Reversed(d) ==
    LET h == IndexFrom(d, 1, <<>>)
    IN  [d EXCEPT !.hashed_requests =
                      [k \in DOMAIN h |-> [i \in 1..Len(h[k]) |-> h[k][Len(h[k]) + 1 - i]]],
                  !.match_counts = <<>>]

rebuild_index(d) ==
    [d EXCEPT !.hashed_requests = IndexFrom(d, 1, <<>>), !.match_counts = <<>>]

AllExtra(d, rec_request, request) ==
    \A i \in 1..Len(d.extra_matchers) :
        ExtraMatcher(d.extra_matchers[i], rec_request, request)

_records_NoExtra(d, request) ==
    LET bucket == Bucket(d.hashed_requests, _get_request_key(d, request))
    IN  [i \in 1..Len(bucket) |-> <<bucket[i][1], bucket[i][3]>>]

\* The (index, rec_value) pairs _records yields, in the order it yields them.
_records(d, request) ==
    LET bucket == Bucket(d.hashed_requests, _get_request_key(d, request))
        kept == SelectSeq(bucket, LAMBDA t : AllExtra(d, t[2], request))
    IN  [i \in 1..Len(kept) |-> <<kept[i][1], kept[i][3]>>]

\* A call's result: the object afterwards, what was returned, what was raised
\* (None when nothing was), and the log index the call consumed (-1 for none).
Result(d, ret, raised, hit) == [dvd |-> d, ret |-> ret, raised |-> raised, hit |-> hit]

record_request_NoModeCheck(d, request, value) ==
    LET v == IF value.tag \in {"Response", "RequestExceptionInfo"}
             THEN value ELSE from_exception(value)
        hashed_key == _get_request_key(d, request)
    IN  Result([d EXCEPT
                   !.hashed_requests =
                       BucketAppend(@, hashed_key, <<Len(d.recorded_requests), request, v>>),
                   !.recorded_requests = Append(@, <<request, v>>),
                   !.dirty = TRUE],
               None, None, -1)

record_request_NoLog(d, request, value) ==
    IF d.from_file
    THEN Result(d, None, Exc("CannotRecord", "Cannot record requests when loaded from file.", FALSE), -1)
    ELSE LET v == IF value.tag \in {"Response", "RequestExceptionInfo"}
                  THEN value ELSE from_exception(value)
             hashed_key == _get_request_key(d, request)
         IN  Result([d EXCEPT
                        !.hashed_requests =
                            BucketAppend(@, hashed_key, <<Len(d.recorded_requests), request, v>>),
                        !.dirty = TRUE],
                    None, None, -1)

record_request(d, request, value) ==
    IF d.from_file
    THEN Result(d, None, Exc("CannotRecord", "Cannot record requests when loaded from file.", FALSE), -1)
    ELSE LET v == IF value.tag \in {"Response", "RequestExceptionInfo"}
                  THEN value ELSE from_exception(value)
             hashed_key == _get_request_key(d, request)
         IN  Result([d EXCEPT
                        !.hashed_requests =
                            BucketAppend(@, hashed_key, <<Len(d.recorded_requests), request, v>>),
                        !.recorded_requests = Append(@, <<request, v>>),
                        !.dirty = TRUE],
                    None, None, -1)

get_response_ConsumesSkipped(d, request) ==
    LET open == SelectSeq(_records(d, request), LAMBDA p : MatchCount(d, p[1]) < 1)
        found == SelectSeq(open, LAMBDA p : p[2].tag = "Response")
        skipped == SelectSeq(open, LAMBDA p : found # <<>> /\ p[1] < found[1][1])
    IN  IF found = <<>> THEN Result(d, None, None, -1)
        ELSE Result([d EXCEPT !.match_counts =
                                  Increment(IncrementAll(@, skipped), found[1][1])],
                    found[1][2], None, found[1][1])

get_response(d, request) ==
    LET found == SelectSeq(_records(d, request),
                           LAMBDA p : MatchCount(d, p[1]) < 1 /\ p[2].tag = "Response")
    IN  IF found = <<>> THEN Result(d, None, None, -1)
        ELSE Result([d EXCEPT !.match_counts = Increment(@, found[1][1])],
                    found[1][2], None, found[1][1])

\* models.py 162-176: raise the captured failure again.
Reconstruct(exc_info) ==
    LET first == RaiseNew(exc_info.exc_type, exc_info.message, TRUE)
        second == RaiseNew(exc_info.exc_type, exc_info.message, FALSE)
    IN  IF ~isinstance(first, "TypeError") THEN first
        ELSE IF ~isinstance(second, "Exception") THEN second
        ELSE RaiseNew("httpx.RequestError", exc_info.message, TRUE)

get_request_ConsumesAll(d, request) ==
    LET found == SelectSeq(_records(d, request), LAMBDA p : MatchCount(d, p[1]) < 1)
    IN  IF found = <<>> THEN Result(d, None, None, -1)
        ELSE LET index == found[1][1]
                 rec == found[1][2]
                 d2 == [d EXCEPT !.match_counts = IncrementAll(@, found)]
             IN  IF rec.tag = "Response" THEN Result(d2, rec, None, index)
                 ELSE Result(d2, None, Reconstruct(rec), index)

get_request_NoCount(d, request) ==
    LET found == SelectSeq(_records(d, request), LAMBDA p : MatchCount(d, p[1]) < 1)
    IN  IF found = <<>> THEN Result(d, None, None, -1)
        ELSE LET index == found[1][1]
                 rec == found[1][2]
             IN  IF rec.tag = "Response" THEN Result(d, rec, None, index)
                 ELSE Result(d, None, Reconstruct(rec), index)

get_request_Reuse(d, request) ==
    LET found == _records(d, request)
    IN  IF found = <<>> THEN Result(d, None, None, -1)
        ELSE LET index == found[1][1]
                 rec == found[1][2]
                 d2 == [d EXCEPT !.match_counts = Increment(@, index)]
             IN  IF rec.tag = "Response" THEN Result(d2, rec, None, index)
                 ELSE Result(d2, None, Reconstruct(rec), index)

get_request(d, request) ==
    LET found == SelectSeq(_records(d, request), LAMBDA p : MatchCount(d, p[1]) < 1)
    IN  IF found = <<>> THEN Result(d, None, None, -1)
        ELSE LET index == found[1][1]
                 rec == found[1][2]
                 d2 == [d EXCEPT !.match_counts = Increment(@, index)]
             IN  IF rec.tag = "Response" THEN Result(d2, rec, None, index)
                 ELSE Result(d2, None, Reconstruct(rec), index)

\* ---- Persisted form (loader.py 33-34, 52-53) ---------------------------
\* model_dump_json: bodies go out base64-encoded, the exception class as its
\* import path; dirty is excluded from the dump.
DumpValue(v) ==
    IF v.tag = "Response"
    THEN [status |-> v.status, headers |-> v.headers, body |-> <<"base64", v.body>>]
    ELSE [exc_type |-> <<"import", v.exc_type>>, message |-> v.message]

DumpRequest(r) == [headers |-> r.headers, method |-> r.method, url |-> r.url]

model_dump_json(d) ==
    [tag |-> "Json",
     recorded_requests |->
        [i \in 1..Len(d.recorded_requests) |->
            <<DumpRequest(d.recorded_requests[i][1]), DumpValue(d.recorded_requests[i][2])>>],
     from_file |-> d.from_file,
     match_on |-> d.match_on]

\* model_validate_json: the union member is chosen by the fields present.
ValidateValue(j) ==
    IF "status" \in DOMAIN j
    THEN Response(j.status, j.headers, j.body[2])
    ELSE RequestExceptionInfo(j.exc_type[2], j.message)

ValidateRequest(j) == Request(j.headers, j.method, j.url)

model_validate_json(text) ==
    [DVD([i \in 1..Len(text.recorded_requests) |->
              <<ValidateRequest(text.recorded_requests[i][1]),
                ValidateValue(text.recorded_requests[i][2])>>],
         text.from_file, text.match_on, <<>>)
     EXCEPT !.dirty = FALSE]

\* ---- DVDLoader.load (loader.py 21-46) ----------------------------------
\* The DVD load leaves in self.dvd; NoDVD when reading the file raised.
load_KeepsLoaded(l, config, fs) ==
    LET text == fs[file_path(l)]
    IN  IF dvd[l] # NoDVD THEN dvd[l]
        ELSE IF text = NoFile
        THEN DVD(<<>>, FALSE, config.match_on, config.extra_matchers)
        ELSE IF text = EmptyFile THEN NoDVD
        ELSE rebuild_index([model_validate_json(text) EXCEPT
                                !.match_on = config.match_on,
                                !.extra_matchers = config.extra_matchers,
                                !.from_file = TRUE])

load_KeepsFlag(l, config, fs) ==
    LET text == fs[file_path(l)]
    IN  IF text = NoFile
        THEN DVD(<<>>, FALSE, config.match_on, config.extra_matchers)
        ELSE IF text = EmptyFile THEN NoDVD
        ELSE rebuild_index([model_validate_json(text) EXCEPT
                                !.match_on = config.match_on,
                                !.extra_matchers = config.extra_matchers])

load(l, config, fs) ==
    LET text == fs[file_path(l)]
    IN  IF text = NoFile
        THEN DVD(<<>>, FALSE, config.match_on, config.extra_matchers)
        ELSE IF text = EmptyFile THEN NoDVD
        ELSE rebuild_index([model_validate_json(text) EXCEPT
                                !.match_on = config.match_on,
                                !.extra_matchers = config.extra_matchers,
                                !.from_file = TRUE])

\* ---- The active-cassette stack ------------------------------------------
push_dvd(stk, l) == Append(stk, l)

Top(stk) == stk[Len(stk)]

\* pop_dvd: the cassette must be the top; anything else is a PopMismatch.
PopOk(stk, l) == stk # <<>> /\ Top(stk) = l

pop_dvd_AnyTop(stk, l) == IF stk # <<>> THEN SubSeq(stk, 1, Len(stk) - 1) ELSE stk

pop_dvd(stk, l) == IF PopOk(stk, l) THEN SubSeq(stk, 1, Len(stk) - 1) ELSE stk

\* before_record_request hooks a loader may be given: the request to record,
\* or None for a request that is not to be recorded.
before_record_request(name, request) ==
    CASE name = "none" -> request
      [] name = "skip_live" -> IF path(request) = "/live" THEN None ELSE request
      [] name = "canonical" ->
            Request(request.headers, request.method,
                    Url("https", "example.com", "/canonical", <<>>))

\* ---- dispatch: what the patched client does with an outbound call ------
\* live: what the real transport answers if it is asked.  The result names the
\* loader whose DVD handled the call ("-" when none did), that DVD afterwards,
\* what the caller gets (ret / raised), whether the real call was made (net)
\* and the log index replayed (hit).
Handled(l, d, ret, raised, net, hit) ==
    [l |-> l, dvd |-> d, ret |-> ret, raised |-> raised, net |-> net, hit |-> hit]

LiveCall(l, d, live) ==
    Handled(l, d, IF live.tag = "Response" THEN live ELSE None,
            IF live.tag = "Response" THEN None ELSE live, TRUE, -1)

dispatch(stk, dvds, config, request, live) ==
    IF stk = <<>> THEN LiveCall("-", NoDVD, live)
    ELSE LET top == Top(stk)
             hooked == before_record_request(config.before_record_request, request)
         IN  IF hooked = None THEN LiveCall(top, dvds[top], live)
             ELSE IF ~dvds[top].from_file
             THEN LiveCall(top, record_request(dvds[top], hooked, live).dvd, live)
             ELSE LET res == get_request(dvds[top], hooked)
                  IN  Handled(top, res.dvd, res.ret,
                              IF res.ret = None /\ res.raised = None
                              THEN Exc("RuntimeError", "no matching recording", FALSE)
                              ELSE res.raised,
                              FALSE, res.hit)

(***************************************************************************)
(* The state machine.                                                      *)
(***************************************************************************)
HostMethodPath == <<"host", "method", "path">>

AllMatchers == <<"host", "method", "path", "query", "headers", "scheme">>

Config(match_on, extra_matchers, hook) ==
    [match_on |-> match_on, extra_matchers |-> extra_matchers,
     before_record_request |-> hook]

\* What the real transport may answer a call with.
LiveOutcomes == {RespA, ConnFailed}

NoServed == [cur |-> {}, past |-> {}]

Serve(sv, hit) == IF hit >= 0 THEN [sv EXCEPT !.cur = @ \cup {hit}] ELSE sv

Call(op, l, req, ret, raised, net) ==
    [op |-> op, l |-> l, req |-> req, ret |-> ret, raised |-> raised, net |-> net]

InScope(l) == \E i \in 1..Len(scopes) : scopes[i] = l

InitWith(configs) ==
    /\ cfg \in configs
    /\ files = [p \in Paths |-> NoFile]
    /\ dvd = [l \in Loaders |-> NoDVD]
    /\ stack = <<>>
    /\ scopes = <<>>
    /\ served = [l \in Loaders |-> NoServed]
    /\ last = Call("init", "-", None, None, None, FALSE)
    /\ calls = [t \in Threads |-> NoCall]

\* with DVDLoader(...) as dvd: __enter__ (loader.py 55-59).  When load raises,
\* nothing is pushed and the block is not entered.
Enter(l) ==
    /\ ~InScope(l)
    /\ LET d == load(l, cfg, files)
       IN  IF d = NoDVD
           THEN /\ last' = Call("enter", l, None, None,
                                Exc("ValidationError", "invalid json", FALSE), FALSE)
                /\ UNCHANGED <<dvd, stack, scopes, served>>
           ELSE /\ dvd' = [dvd EXCEPT ![l] = d]
                /\ stack' = push_dvd(stack, l)
                /\ scopes' = Append(scopes, l)
                /\ served' = [served EXCEPT ![l] = NoServed]
                /\ last' = Call("enter", l, None, None, None, FALSE)
    /\ UNCHANGED <<calls, cfg, files>>

\* The end of the with-block: __exit__ (loader.py 61-69).  exc_type: the body
\* raised; written: the file write of save() goes through.  What __exit__
\* raises is what its finally clause raised, else what save raised.
ExcInfo(exc_type) == [tag |-> "ExcInfo", exc_type |-> exc_type]

Saving_AnyExit(l, exc_type) == dvd[l] # NoDVD /\ dvd[l].dirty

Saving(l, exc_type) == ~exc_type /\ dvd[l] # NoDVD /\ dvd[l].dirty

Exit_NoFinally(l, exc_type, written) ==
    /\ scopes # <<>> /\ scopes[Len(scopes)] = l
    /\ ~Saving(l, exc_type) => written
    /\ IF Saving(l, exc_type) /\ written
       THEN /\ files' = [files EXCEPT ![file_path(l)] = model_dump_json(dvd[l])]
            /\ dvd' = [dvd EXCEPT ![l].dirty = FALSE]
       ELSE IF Saving(l, exc_type)
       THEN /\ files' = [files EXCEPT ![file_path(l)] = EmptyFile]
            /\ dvd' = dvd
       ELSE UNCHANGED <<files, dvd>>
    /\ stack' = IF dvd[l] # NoDVD /\ ~exc_type THEN pop_dvd(stack, l) ELSE stack
    /\ scopes' = SubSeq(scopes, 1, Len(scopes) - 1)
    /\ last' = Call("exit", l, ExcInfo(exc_type), None, None, FALSE)
    /\ UNCHANGED <<calls, cfg, served>>

Exit(l, exc_type, written) ==
    /\ scopes # <<>> /\ scopes[Len(scopes)] = l
    /\ ~Saving(l, exc_type) => written
    /\ IF Saving(l, exc_type) /\ written
       THEN /\ files' = [files EXCEPT ![file_path(l)] = model_dump_json(dvd[l])]
            /\ dvd' = [dvd EXCEPT ![l].dirty = FALSE]
       ELSE IF Saving(l, exc_type)
       THEN /\ files' = [files EXCEPT ![file_path(l)] = EmptyFile]
            /\ dvd' = dvd
       ELSE UNCHANGED <<files, dvd>>
    /\ stack' = IF dvd[l] # NoDVD THEN pop_dvd(stack, l) ELSE stack
    /\ scopes' = SubSeq(scopes, 1, Len(scopes) - 1)
    /\ last' = Call("exit", l, ExcInfo(exc_type), None,
                    IF dvd[l] # NoDVD /\ ~PopOk(stack, l)
                    THEN Exc("PopMismatch", "not the top of the stack", FALSE)
                    ELSE IF Saving(l, exc_type) /\ ~written
                    THEN Exc("OSError", "write failed", FALSE)
                    ELSE None,
                    FALSE)
    /\ UNCHANGED <<calls, cfg, served>>

\* dvd.record_request(request, value), called on a loader's DVD.
RecordRequest(l, request, value) ==
    /\ dvd[l] # NoDVD
    /\ dvd[l].from_file \/ Len(dvd[l].recorded_requests) < MaxLog
    /\ LET res == record_request(dvd[l], request, value)
       IN  /\ dvd' = [dvd EXCEPT ![l] = res.dvd]
           /\ last' = Call("record_request", l, request, res.ret, res.raised, FALSE)
    /\ UNCHANGED <<calls, cfg, files, stack, scopes, served>>

\* dvd.get_request(request)
GetRequest(l, request) ==
    /\ dvd[l] # NoDVD
    /\ LET res == get_request(dvd[l], request)
       IN  /\ dvd' = [dvd EXCEPT ![l] = res.dvd]
           /\ served' = [served EXCEPT ![l] = Serve(@, res.hit)]
           /\ last' = Call("get_request", l, request, res.ret, res.raised, FALSE)
    /\ UNCHANGED <<calls, cfg, files, stack, scopes>>

\* dvd.get_response(request)
GetResponse(l, request) ==
    /\ dvd[l] # NoDVD
    /\ LET res == get_response(dvd[l], request)
       IN  /\ dvd' = [dvd EXCEPT ![l] = res.dvd]
           /\ served' = [served EXCEPT ![l] = Serve(@, res.hit)]
           /\ last' = Call("get_response", l, request, res.ret, res.raised, FALSE)
    /\ UNCHANGED <<calls, cfg, files, stack, scopes>>

\* dvd.rebuild_index()
RebuildIndex(l) ==
    /\ dvd[l] # NoDVD
    /\ dvd' = [dvd EXCEPT ![l] = rebuild_index(@)]
    /\ served' = [served EXCEPT ![l] = [cur |-> {}, past |-> @.past \cup @.cur]]
    /\ last' = Call("rebuild_index", l, None, None, None, FALSE)
    /\ UNCHANGED <<calls, cfg, files, stack, scopes>>

\* An outbound call of the HTTP client while the patch is installed.
Dispatch(request, live) ==
    LET res == dispatch(stack, dvd, cfg, request, live)
    IN  /\ res.l # "-"
        /\ Len(res.dvd.recorded_requests) <= MaxRecorded
        /\ dvd' = [dvd EXCEPT ![res.l] = res.dvd]
        /\ served' = [served EXCEPT ![res.l] = Serve(@, res.hit)]
        /\ last' = Call("dispatch", res.l, request, res.ret, res.raised, res.net)
        /\ UNCHANGED <<calls, cfg, files, stack, scopes>>

\* ---- The cassette on its own: one loader, the DVD's methods called directly
CassetteConfigs ==
    {Config(HostMethodPath, <<>>, "none"),
     Config(HostMethodPath, <<"same_query">>, "none"),
     Config(AllMatchers, <<>>, "none")}

CassetteRequests == {ReqItems, ReqItemsQ}

CassetteValues == {RespA, ConnFailed}

InitCassette == InitWith(CassetteConfigs)

NextCassette ==
    \/ Enter("L1")
    \/ \E exc_type \in BOOLEAN : Exit("L1", exc_type, TRUE)
    \/ \E r \in CassetteRequests, v \in CassetteValues : RecordRequest("L1", r, v)
    \/ \E r \in CassetteRequests : GetRequest("L1", r)
    \/ \E r \in CassetteRequests : GetResponse("L1", r)
    \/ RebuildIndex("L1")

SpecCassette == InitCassette /\ [][NextCassette]_vars

\* ---- Loaders, nested scopes and the patched client ----------------------
StackConfigs ==
    {Config(HostMethodPath, <<>>, "none"),
     Config(HostMethodPath, <<>>, "skip_live")}

\* The calls the client makes: /live is called where a hook is there to pass it through.
StackRequests ==
    IF cfg.before_record_request = "none" THEN {ReqItems, ReqOther}
    ELSE {ReqItems, ReqOther, ReqLive}

Init == InitWith(StackConfigs)

Next ==
    \/ \E l \in Loaders : Enter(l)
    \/ \E l \in Loaders, exc_type \in BOOLEAN : Exit(l, exc_type, TRUE)
    \/ \E r \in StackRequests, live \in LiveOutcomes : Dispatch(r, live)

Spec == Init /\ [][Next]_vars

\* ---- Replaying captured failures of every class -------------------------
FailureMessages == {"conn failed", "boom"}

Failures == {Exc(c, m, FALSE) : c \in DOMAIN ExcClasses, m \in FailureMessages}

InitFailure == InitWith({Config(HostMethodPath, <<>>, "none")})

NextFailure ==
    \/ Enter("L1")
    \/ Exit("L1", FALSE, TRUE)
    \/ \E v \in Failures \cup {RespA} :
          /\ dvd["L1"] # NoDVD
          /\ Len(dvd["L1"].recorded_requests) < MaxFailures
          /\ RecordRequest("L1", ReqItems, v)
    \/ GetRequest("L1", ReqItems)
    \/ \E live \in LiveOutcomes : Dispatch(ReqItems, live)

SpecFailure == InitFailure /\ [][NextFailure]_vars

\* ---- A DVD constructed directly, with every keyword the tests pass -------
\* The requests of tests/unit/test_filter_headers.py and
\* tests/unit/test_before_hook_symmetry.py, and queries differing in order.
AuthHeader == <<"Authorization", "Bearer abc">>

AUTHHeader == <<"AUTHORIZATION", "Bearer abc">>

ItemsUrl(q) == Url("https", "example.com", "/items", q)

ReqAuth == Request(<<AuthHeader, <<"X-Other", "1">>>>, "GET", ItemsUrl(<<>>))

ReqAUTH == Request(<<AUTHHeader, <<"X-Other", "1">>>>, "GET", ItemsUrl(<<>>))

ReqPlain == Request(<<<<"X-Other", "1">>>>, "GET", ItemsUrl(<<>>))

ReqOther2 == Request(<<<<"X-Other", "2">>>>, "GET", ItemsUrl(<<>>))

ReqElsewhere ==
    Request(<<>>, "GET", Url("https", "another.host", "/elsewhere", <<<<"utm", "tracking">>>>))

ReqAB == Request(<<>>, "GET", ItemsUrl(<<<<"a", "1">>, <<"b", "2">>>>))

ReqBA == Request(<<>>, "GET", ItemsUrl(<<<<"b", "2">>, <<"a", "1">>>>))

ReqA12 == Request(<<>>, "GET", ItemsUrl(<<<<"a", "1">>, <<"a", "2">>>>))

ReqA21 == Request(<<>>, "GET", ItemsUrl(<<<<"a", "2">>, <<"a", "1">>>>))

RespSecret == Response(200, <<<<"Content-Type", "application/json">>>>, "user-secret-ok")

\* before_record_response hooks the tests pass: _strip_secret_key drops the
\* "secret" key of a JSON body.
before_record_response(name, response) ==
    CASE name = "none" -> response
      [] name = "strip_secret" ->
            IF response.body = "user-secret-ok"
            THEN Response(response.status, response.headers, "user-ok")
            ELSE response

\* The keyword arguments of DVD(...).
Kwargs(match_on, filter_headers, request_hook, response_hook) ==
    [match_on |-> match_on, extra_matchers |-> <<>>,
     before_record_request |-> request_hook,
     filter_headers |-> filter_headers,
     before_record_response |-> response_hook]

\* DVD(recorded_requests=[], from_file=False, **kwargs): the model has the
\* fields of models.py 88-109; a keyword that names no field is ignored.
NewDVD(kwargs) == DVD(<<>>, FALSE, kwargs.match_on, kwargs.extra_matchers)

Construct(l) ==
    /\ dvd[l] = NoDVD
    /\ dvd' = [dvd EXCEPT ![l] = NewDVD(cfg)]
    /\ last' = Call("construct", l, None, None, None, FALSE)
    /\ UNCHANGED <<calls, cfg, files, stack, scopes, served>>

MatchConfigs ==
    {Kwargs(AllMatchers, <<"authorization">>, "none", "none"),
     Kwargs(AllMatchers, <<>>, "canonical", "none"),
     Kwargs(HostMethodPath, <<>>, "none", "strip_secret"),
     Kwargs(AllMatchers, <<>>, "none", "none")}

\* The requests made against each of these cassettes.
MatchRequests ==
    IF cfg.filter_headers # <<>> THEN {ReqAuth, ReqAUTH, ReqPlain, ReqOther2}
    ELSE IF cfg.before_record_request = "canonical" THEN {ReqItems, ReqElsewhere}
    ELSE IF cfg.before_record_response = "strip_secret" THEN {ReqItems}
    ELSE {ReqAB, ReqBA, ReqA12, ReqA21}

MatchValues == {RespSecret, ConnFailed}

InitMatch == InitWith(MatchConfigs)

NextMatch ==
    \/ Construct("L1")
    \/ \E r \in MatchRequests, v \in MatchValues : RecordRequest("L1", r, v)
    \/ \E r \in MatchRequests : GetRequest("L1", r)
    \/ \E r \in MatchRequests : GetResponse("L1", r)

SpecMatch == InitMatch /\ [][NextMatch]_vars

\* ---- A cassette indexed by record_request alone ---------------------------
InitIndex == InitWith(CassetteConfigs)

NextIndex ==
    \/ Construct("L1")
    \/ \E r \in CassetteRequests, v \in CassetteValues : RecordRequest("L1", r, v)
    \/ \E r \in CassetteRequests : GetRequest("L1", r)
    \/ \E r \in CassetteRequests : GetResponse("L1", r)

SpecIndex == InitIndex /\ [][NextIndex]_vars

\* ---- Scopes of both kinds, and saves that fail ----------------------------
\* A scope opened by _reusable_enter is written R1 / R2 in scopes, one opened
\* by __enter__ L1 / L2.
ReusableScope(l) == IF l = "L1" THEN "R1" ELSE "R2"

OnStack(l) == \E i \in 1..Len(stack) : stack[i] = l

\* No scope of the loader is open and its DVD is not on the stack.
Idle(l) == ~InScope(l) /\ ~InScope(ReusableScope(l)) /\ ~OnStack(l)

\* _reusable_enter (loader.py 71-75): load only when there is no DVD yet.
ReusableEnter(l) ==
    /\ Idle(l)
    /\ LET d == IF dvd[l] = NoDVD THEN load(l, cfg, files) ELSE dvd[l]
       IN  IF d = NoDVD
           THEN /\ last' = Call("reusable_enter", l, None, None,
                                Exc("ValidationError", "invalid json", FALSE), FALSE)
                /\ UNCHANGED <<dvd, stack, scopes, served>>
           ELSE /\ dvd' = [dvd EXCEPT ![l] = d]
                /\ stack' = push_dvd(stack, l)
                /\ scopes' = Append(scopes, ReusableScope(l))
                /\ served' = IF dvd[l] = NoDVD THEN [served EXCEPT ![l] = NoServed]
                             ELSE served
                /\ last' = Call("reusable_enter", l, None, None, None, FALSE)
    /\ UNCHANGED <<calls, cfg, files>>

\* _reusable_exit (loader.py 77-84).  written: the file write of save() goes
\* through; when it does not, save raises and the statements after it are not run.
ReusableExit(l, written) ==
    /\ scopes # <<>> /\ scopes[Len(scopes)] = ReusableScope(l)
    /\ ~dvd[l].dirty => written
    /\ IF dvd[l].dirty /\ written
       THEN /\ files' = [files EXCEPT ![file_path(l)] = model_dump_json(dvd[l])]
            /\ dvd' = [dvd EXCEPT ![l].dirty = FALSE]
       ELSE IF dvd[l].dirty
       THEN /\ files' = [files EXCEPT ![file_path(l)] = EmptyFile]
            /\ dvd' = dvd
       ELSE UNCHANGED <<files, dvd>>
    /\ stack' = IF dvd[l].dirty /\ ~written THEN stack ELSE pop_dvd(stack, l)
    /\ scopes' = SubSeq(scopes, 1, Len(scopes) - 1)
    /\ last' = Call("reusable_exit", l, None, None,
                    IF dvd[l].dirty /\ ~written
                    THEN Exc("OSError", "write failed", FALSE)
                    ELSE IF ~PopOk(stack, l)
                    THEN Exc("PopMismatch", "not the top of the stack", FALSE)
                    ELSE None,
                    FALSE)
    /\ UNCHANGED <<calls, cfg, served>>

ScopeRequests == {ReqItems, ReqOther}

InitScope == InitWith({Config(HostMethodPath, <<>>, "none")})

NextScope ==
    \/ \E l \in Loaders : Idle(l) /\ Enter(l)
    \/ \E l \in Loaders, exc_type \in BOOLEAN, written \in BOOLEAN : Exit(l, exc_type, written)
    \/ \E l \in Loaders : ReusableEnter(l)
    \/ \E l \in Loaders, written \in BOOLEAN : ReusableExit(l, written)
    \/ \E l \in Loaders, r \in ScopeRequests :
          /\ InScope(l) \/ InScope(ReusableScope(l))
          /\ RecordRequest(l, r, RespA)

SpecScope == InitScope /\ [][NextScope]_vars

\* ---- A DVD constructed directly with the entries it is given ---------------
\* DVD(recorded_requests=[...], from_file=False, ...) as in
\* tests/unit/test_models.py: the fields are set, nothing else runs.
GivenLogs == {<<>>, <<<<ReqItems, RespA>>>>}

ConstructWith(l, recorded_requests) ==
    /\ dvd[l] = NoDVD
    /\ dvd' = [dvd EXCEPT ![l] =
                  DVD(recorded_requests, FALSE, cfg.match_on, cfg.extra_matchers)]
    /\ last' = Call("construct", l, None, None, None, FALSE)
    /\ UNCHANGED <<calls, cfg, files, stack, scopes, served>>

InitDirect == InitWith(CassetteConfigs)

NextDirect ==
    \/ \E log \in GivenLogs : ConstructWith("L1", log)
    \/ \E r \in CassetteRequests, v \in CassetteValues : RecordRequest("L1", r, v)
    \/ \E r \in CassetteRequests : GetRequest("L1", r)
    \/ \E r \in CassetteRequests : GetResponse("L1", r)
    \/ RebuildIndex("L1")

SpecDirect == InitDirect /\ [][NextDirect]_vars

\* ---- record_request run by several threads, statement by statement ---------
\* The frame of a call that has passed models.py 135-140: its cassette, its
\* locals, and the statement it executes next.
Frame(l, request, value, hashed_key, at) ==
    [tag |-> "Frame", l |-> l, request |-> request, value |-> value,
     hashed_key |-> hashed_key, at |-> at]

\* The calls that have not yet appended to the log of loader l's cassette.
Pending(l) ==
    {t \in Threads : calls[t] # NoCall /\ calls[t].l = l /\ calls[t].at \in {"insert", "append"}}

\* models.py 135-140: the mode check, the conversion of the value, the key.
BeginRecord(t, l, request, value) ==
    /\ calls[t] = NoCall
    /\ dvd[l] # NoDVD
    /\ Len(dvd[l].recorded_requests) + Cardinality(Pending(l)) < MaxLog
    /\ IF dvd[l].from_file
       THEN /\ last' = Call("record_request", l, request, None,
                            Exc("CannotRecord", "Cannot record requests when loaded from file.", FALSE),
                            FALSE)
            /\ calls' = calls
       ELSE /\ calls' = [calls EXCEPT ![t] =
                            Frame(l, request,
                                  IF value.tag \in {"Response", "RequestExceptionInfo"}
                                  THEN value ELSE from_exception(value),
                                  _get_request_key(dvd[l], request), "insert")]
            /\ last' = last
    /\ UNCHANGED <<cfg, files, dvd, stack, scopes, served>>

\* models.py 141-143: the triple, numbered by the length the log has now.
InsertIndex(t) ==
    /\ calls[t] # NoCall /\ calls[t].at = "insert"
    /\ LET f == calls[t]
       IN  dvd' = [dvd EXCEPT ![f.l].hashed_requests =
                      BucketAppend(@, f.hashed_key,
                                   <<Len(dvd[f.l].recorded_requests), f.request, f.value>>)]
    /\ calls' = [calls EXCEPT ![t].at = "append"]
    /\ UNCHANGED <<cfg, files, stack, scopes, served, last>>

\* models.py 144
AppendLog(t) ==
    /\ calls[t] # NoCall /\ calls[t].at = "append"
    /\ LET f == calls[t]
       IN  dvd' = [dvd EXCEPT ![f.l].recorded_requests = Append(@, <<f.request, f.value>>)]
    /\ calls' = [calls EXCEPT ![t].at = "dirty"]
    /\ UNCHANGED <<cfg, files, stack, scopes, served, last>>

\* models.py 145, and the return.
SetDirty(t) ==
    /\ calls[t] # NoCall /\ calls[t].at = "dirty"
    /\ LET f == calls[t]
       IN  /\ dvd' = [dvd EXCEPT ![f.l].dirty = TRUE]
           /\ last' = Call("record_request", f.l, f.request, None, None, FALSE)
    /\ calls' = [calls EXCEPT ![t] = NoCall]
    /\ UNCHANGED <<cfg, files, stack, scopes, served>>

InitConcurrent == InitWith(CassetteConfigs)

NextConcurrent ==
    \/ Construct("L1")
    \/ \E t \in Threads, r \in CassetteRequests, v \in CassetteValues :
          BeginRecord(t, "L1", r, v)
    \/ \E t \in Threads : InsertIndex(t)
    \/ \E t \in Threads : AppendLog(t)
    \/ \E t \in Threads : SetDirty(t)

SpecConcurrent == InitConcurrent /\ [][NextConcurrent]_vars

(***************************************************************************)
(* Properties.                                                             *)
(***************************************************************************)
Log(d) == d.recorded_requests

\* The recorded request rec matches the incoming request: equal on every
\* configured match field, and every extra predicate holds.
Matching(d, rec, request) ==
    /\ \A i \in 1..Len(d.match_on) :
          BUILTIN_MATCHER_HASHERS(d.match_on[i], rec)
              = BUILTIN_MATCHER_HASHERS(d.match_on[i], request)
    /\ AllExtra(d, rec, request)

\* The sequence indices (log positions, from 0) of the entries matching request.
MatchingIdx(d, request) ==
    {i \in 0..(Len(Log(d)) - 1) : Matching(d, Log(d)[i + 1][1], request)}

Entry(d, i) == Log(d)[i + 1][2]

Min(S) == CHOOSE x \in S : \A y \in S : x <= y

NotFound(res) == res.ret = None /\ res.raised = None

\* The call gave the caller the recorded outcome v: a response is returned, a
\* captured failure is raised again.
Gives(res, v) ==
    IF v.tag = "Response" THEN res.ret = v /\ res.raised = None
    ELSE res.ret = None /\ res.raised # None

NoMatchingRecording == Exc("RuntimeError", "no matching recording", FALSE)

Live(l) == dvd[l] # NoDVD

\* C1 as stated: an entry recorded once is given by the first matching lookup
\* (get_request or get_response) and by no later one.
C1_SingleUseAnyLookup ==
    \A l \in Loaders, r \in Requests :
        (Live(l) /\ Cardinality(MatchingIdx(dvd[l], r)) = 1) =>
            LET i == Min(MatchingIdx(dvd[l], r))
                before == i \in served[l].cur \cup served[l].past
            IN  /\ ~before => /\ Gives(get_request(dvd[l], r), Entry(dvd[l], i))
                              /\ Gives(get_response(dvd[l], r), Entry(dvd[l], i))
                /\ before => /\ NotFound(get_request(dvd[l], r))
                             /\ NotFound(get_response(dvd[l], r))

\* C1, amended: an entry recorded once is given by the first matching
\* get_request since it was recorded or the index was last rebuilt, and by the
\* first matching get_response if it is a response; after that every matching
\* lookup returns None; get_response never gives a captured failure.
C1_SingleUse ==
    \A l \in Loaders, r \in Requests :
        (Live(l) /\ Cardinality(MatchingIdx(dvd[l], r)) = 1) =>
            LET i == Min(MatchingIdx(dvd[l], r))
                e == Entry(dvd[l], i)
                before == i \in served[l].cur
            IN  /\ ~before => /\ Gives(get_request(dvd[l], r), e)
                              /\ IF e.tag = "Response"
                                 THEN Gives(get_response(dvd[l], r), e)
                                 ELSE NotFound(get_response(dvd[l], r))
                /\ before => /\ NotFound(get_request(dvd[l], r))
                             /\ NotFound(get_response(dvd[l], r))

\* A second lookup of an entry recorded once has just returned None.
C1_Witness ==
    /\ Live("L1") /\ Len(Log(dvd["L1"])) = 1
    /\ served["L1"].cur = {0}
    /\ last.op \in {"get_request", "get_response"}
    /\ last.req = Log(dvd["L1"])[1][1]
    /\ last.ret = None /\ last.raised = None

\* C2: successive matching get_request calls give the matching entries in
\* ascending sequence index, each once, and then None.
C2_ReplayOrder ==
    \A l \in Loaders, r \in Requests :
        Live(l) =>
            LET left == MatchingIdx(dvd[l], r) \ served[l].cur
                res == get_request(dvd[l], r)
            IN  IF left = {} THEN NotFound(res) /\ res.hit = -1
                ELSE res.hit = Min(left) /\ Gives(res, Entry(dvd[l], Min(left)))

\* Two entries with one fingerprint were recorded, both have been replayed (the
\* second by the lookup before), and the third lookup has returned None.
C2_Witness ==
    /\ Live("L1") /\ Len(Log(dvd["L1"])) = 2
    /\ MatchingIdx(dvd["L1"], ReqItems) = {0, 1}
    /\ Entry(dvd["L1"], 0) # Entry(dvd["L1"], 1)
    /\ served["L1"].cur = {0, 1}
    /\ last.op = "get_request" /\ last.req = ReqItems
    /\ last.ret = None /\ last.raised = None

\* C5: record_request on a replay-only cassette raises CannotRecord and changes
\* nothing, and the entries of a replay-only cassette stay those it was loaded with.
C5_ReplayOnlyNeverRecords ==
    \A l \in Loaders :
        (Live(l) /\ dvd[l].from_file) =>
            /\ \A r \in Requests, v \in CassetteValues :
                  LET res == record_request(dvd[l], r, v)
                  IN  /\ res.raised # None /\ res.raised.cls = "CannotRecord"
                      /\ res.dvd = dvd[l]
            /\ files[file_path(l)].tag = "Json"
            /\ Log(dvd[l]) = Log(model_validate_json(files[file_path(l)]))
            /\ ~dvd[l].dirty

\* A record_request on a cassette loaded from its file has just been refused.
C5_Witness ==
    /\ Live("L1") /\ dvd["L1"].from_file
    /\ last.op = "record_request"
    /\ last.raised # None /\ last.raised.cls = "CannotRecord"

\* ---- Dispatch through the stack ------------------------------------------
Recordable(r) == before_record_request(cfg.before_record_request, r) # None

Innermost == scopes[Len(scopes)]

\* The caller of the client gets what the real transport answered.
CallerGets(res, live) ==
    IF live.tag = "Response" THEN res.ret = live /\ res.raised = None
    ELSE res.raised = live /\ res.ret = None

\* What record_request stores for a live outcome.
Stored(live) ==
    IF live.tag = "Response" THEN live
    ELSE RequestExceptionInfo(live.cls, live.message)

\* C3: a call is decided by the cassette of the innermost open scope alone: a
\* recordable request that cassette has no entry for fails with the
\* no-matching-recording error when it is replay-only, whatever the cassettes
\* below hold; and a dispatch changes no other cassette.
C3_DecidedByInnermost ==
    \A r \in Requests, live \in LiveOutcomes :
        scopes # <<>> =>
            LET res == dispatch(stack, dvd, cfg, r, live)
            IN  /\ res.l = Innermost
                /\ (/\ Recordable(r)
                    /\ dvd[Innermost].from_file
                    /\ MatchingIdx(dvd[Innermost], r) = {})
                   => /\ res.raised = NoMatchingRecording
                      /\ ~res.net
                      /\ res.dvd = dvd[Innermost]

C3_OthersUntouched ==
    last'.op = "dispatch" =>
        \A l \in Loaders :
            l # last'.l => dvd'[l] = dvd[l] /\ served'[l] = served[l]

C3_NestedScoping == []C3_DecidedByInnermost /\ [][C3_OthersUntouched]_vars

\* With L2 (replay-only) nested in L1, a request only L1 has recorded has just
\* failed with the no-matching-recording error.
C3_Witness ==
    /\ scopes = <<"L1", "L2">>
    /\ dvd["L2"].from_file
    /\ last.op = "dispatch" /\ last.l = "L2"
    /\ MatchingIdx(dvd["L1"], last.req) # {}
    /\ MatchingIdx(dvd["L2"], last.req) = {}
    /\ last.raised = NoMatchingRecording /\ ~last.net

\* C4: on a replay-only top cassette a recordable request with no matching
\* entry left to replay fails with the no-matching-recording error, and the
\* real call is not made.
C4_ReplayOnly ==
    \A r \in Requests, live \in LiveOutcomes :
        (/\ stack # <<>>
         /\ dvd[Top(stack)].from_file
         /\ Recordable(r)
         /\ MatchingIdx(dvd[Top(stack)], r) \subseteq served[Top(stack)].cur)
        => LET res == dispatch(stack, dvd, cfg, r, live)
           IN  res.raised = NoMatchingRecording /\ res.ret = None /\ ~res.net

\* A request whose only entry was already replayed has just been refused.
C4_Witness ==
    /\ stack # <<>> /\ dvd[Top(stack)].from_file
    /\ last.op = "dispatch" /\ last.l = Top(stack)
    /\ MatchingIdx(dvd[Top(stack)], last.req) # {}
    /\ MatchingIdx(dvd[Top(stack)], last.req) \subseteq served[Top(stack)].cur
    /\ last.raised = NoMatchingRecording /\ ~last.net

\* C6: on a writable top cassette a recordable request makes the real call,
\* appends exactly one entry holding the request and the real outcome, and the
\* caller gets the real outcome; nothing is replayed.
C6_WritableDispatch ==
    \A r \in Requests, live \in LiveOutcomes :
        (stack # <<>> /\ ~dvd[Top(stack)].from_file /\ Recordable(r))
        => LET d == dvd[Top(stack)]
               res == dispatch(stack, dvd, cfg, r, live)
           IN  /\ res.net
               /\ CallerGets(res, live)
               /\ Log(res.dvd) = Append(Log(d), <<r, Stored(live)>>)
               /\ res.dvd.dirty
               /\ res.hit = -1
               /\ res.dvd.match_counts = d.match_counts

\* A writable cassette that already held the request has recorded it again
\* from the network.
C6_Witness ==
    /\ stack # <<>> /\ ~dvd[Top(stack)].from_file
    /\ last.op = "dispatch" /\ last.l = Top(stack) /\ last.net
    /\ Len(Log(dvd[Top(stack)])) = 1
    /\ dvd[Top(stack)].dirty
    /\ Log(dvd[Top(stack)])[1][1] = last.req

\* C7: in a replay-only scope a transport failure recorded once is raised again
\* with its class and message by the first matching call, which consumes the
\* entry; the second matching call fails with the no-matching-recording error.
C7_ExceptionRoundTrip ==
    \A r \in Requests, live \in LiveOutcomes :
        (/\ stack # <<>>
         /\ dvd[Top(stack)].from_file
         /\ Recordable(r)
         /\ Cardinality(MatchingIdx(dvd[Top(stack)], r)) = 1
         /\ Entry(dvd[Top(stack)], Min(MatchingIdx(dvd[Top(stack)], r))).tag
                = "RequestExceptionInfo")
        => LET top == Top(stack)
               i == Min(MatchingIdx(dvd[top], r))
               res == dispatch(stack, dvd, cfg, r, live)
               again == dispatch(stack, [dvd EXCEPT ![top] = res.dvd], cfg, r, live)
           IN  IF i \in served[top].cur
               THEN res.raised = NoMatchingRecording /\ ~res.net
               ELSE /\ res.raised = ConnFailed
                    /\ res.ret = None /\ ~res.net
                    /\ MatchCount(res.dvd, i) = 1
                    /\ again.raised = NoMatchingRecording /\ ~again.net

\* The failure was recorded in an earlier scope, replayed once in this one, and
\* the second call has just failed with the no-matching-recording error.
C7_Witness ==
    /\ stack # <<>> /\ dvd[Top(stack)].from_file
    /\ Len(Log(dvd[Top(stack)])) = 1
    /\ Entry(dvd[Top(stack)], 0) = RequestExceptionInfo("httpx.ConnectError", "conn failed")
    /\ served[Top(stack)].cur = {0}
    /\ last.op = "dispatch" /\ last.req = Log(dvd[Top(stack)])[1][1]
    /\ last.raised = NoMatchingRecording

FailureDue(d, sv, r) ==
    LET left == MatchingIdx(d, r) \ sv.cur
    IN  IF left # {} /\ Entry(d, Min(left)).tag = "RequestExceptionInfo"
        THEN Entry(d, Min(left)) ELSE None

\* C8: the failure raised on replay is the captured class built with (message,
\* request) if that can be built, else the captured class built with the
\* message alone if that can be built, else the generic transport error.
C8_FallbackChain ==
    \A l \in Loaders, r \in Requests :
        (Live(l) /\ FailureDue(dvd[l], served[l], r) # None) =>
            LET e == FailureDue(dvd[l], served[l], r)
                c == ExcClasses[e.exc_type]
                res == get_request(dvd[l], r)
            IN  IF c.with_request = "ok"
                THEN res.raised = Exc(e.exc_type, e.message, TRUE)
                ELSE IF c.bare = "ok"
                THEN res.raised = Exc(e.exc_type, e.message, FALSE)
                ELSE res.raised = Exc("httpx.RequestError", e.message, TRUE)

\* C9: whatever the captured class's constructor does, the error raised on
\* replay carries the captured message.
C9_CarriesMessage ==
    \A l \in Loaders, r \in Requests :
        (Live(l) /\ FailureDue(dvd[l], served[l], r) # None) =>
            LET e == FailureDue(dvd[l], served[l], r)
                res == get_request(dvd[l], r)
            IN  res.raised # None /\ res.raised.message = e.message

\* ---- Header filtering and the recording hooks ----------------------------
\* The header pairs left once every pair whose name is, case-insensitively, in
\* names is removed.
FilterHeaders(headers, names) ==
    SelectSeq(headers,
              LAMBDA h : Lower(h[1]) \notin {Lower(names[i]) : i \in DOMAIN names})

Filtered(r) == Request(FilterHeaders(r.headers, cfg.filter_headers), r.method, r.url)

AllMatchRequests ==
    {ReqAuth, ReqAUTH, ReqPlain, ReqOther2, ReqItems, ReqElsewhere,
     ReqAB, ReqBA, ReqA12, ReqA21}

\* The log indices _records yields for a request.
RecordsIdx(d, request) ==
    {_records(d, request)[k][1] : k \in DOMAIN _records(d, request)}

Writable(l) == Live(l) /\ ~dvd[l].from_file

\* C11: with a filter list configured, record_request stores and indexes the
\* request with the header pairs whose name is in the list (case-insensitively)
\* removed and every other pair kept in order; the hook is given that request.
C11_HeaderFilterOnRecord ==
    \A l \in Loaders, r \in AllMatchRequests, v \in MatchValues :
        Writable(l) =>
            LET d == record_request(dvd[l], r, v).dvd
                n == Len(Log(dvd[l]))
                stored == before_record_request(cfg.before_record_request, Filtered(r))
            IN  /\ Len(Log(d)) = n + 1
                /\ Log(d)[n + 1][1].headers = FilterHeaders(r.headers, cfg.filter_headers)
                /\ \E k \in DOMAIN Bucket(d.hashed_requests, _get_request_key(d, stored)) :
                      LET t == Bucket(d.hashed_requests, _get_request_key(d, stored))[k]
                      IN  t[1] = n /\ t[2].headers = stored.headers

\* C12: with headers in match_on, a lookup request that differs from a recorded
\* one only in filtered headers matches its entry, and one that differs in a
\* header that is not filtered does not.
C12_FilterSymmetric ==
    \A l \in Loaders, r \in AllMatchRequests :
        Live(l) =>
            \A i \in 0..(Len(Log(dvd[l])) - 1) :
                LET rec == Log(dvd[l])[i + 1][1]
                IN  (/\ \E k \in DOMAIN dvd[l].match_on : dvd[l].match_on[k] = "headers"
                     /\ r.method = rec.method /\ r.url = rec.url)
                    => ((FilterHeaders(r.headers, cfg.filter_headers)
                            = FilterHeaders(rec.headers, cfg.filter_headers))
                        <=> i \in RecordsIdx(dvd[l], r))

\* C13: record_request stores and indexes the hook's output, and a lookup
\* fingerprints the hook's output for the incoming request: on a cassette
\* holding one recorded response, a request with the same hook image gets it,
\* whatever its URL, and the next such lookup finds nothing.
C13_HookSymmetry ==
    \A l \in Loaders, r1 \in AllMatchRequests, r2 \in AllMatchRequests :
        (Writable(l) /\ Log(dvd[l]) = <<>>) =>
            LET image(r) == before_record_request(cfg.before_record_request, r)
                d == record_request(dvd[l], r1, RespA).dvd
                first == get_response(d, r2)
                second == get_response(first.dvd, r2)
            IN  /\ Log(d)[1][1] = image(r1)
                /\ image(r2) = image(r1) => first.ret = RespA /\ NotFound(second)

\* C14: record_request stores the response hook's output for a response and a
\* captured failure as it is; replay, also after save and load without the
\* hook, gives the stored value and does not apply the hook again.
C14_ResponseHookOnce ==
    \A l \in Loaders, r \in AllMatchRequests, v \in MatchValues :
        (Writable(l) /\ Log(dvd[l]) = <<>>) =>
            LET d == record_request(dvd[l], r, v).dvd
                expected == IF v.tag = "Response"
                            THEN before_record_response(cfg.before_record_response, v)
                            ELSE Stored(v)
                reloaded == load(l, Config(cfg.match_on, <<>>, "none"),
                                 [files EXCEPT ![file_path(l)] = model_dump_json(d)])
            IN  /\ Log(d)[1][2] = expected
                /\ Gives(get_request(d, r), expected)
                /\ Gives(get_request(reloaded, r), expected)

\* The parsed query as a mapping: key -> list of values.
QueryMap(r) ==
    LET q == query(r)
    IN  [k \in {q[j][1] : j \in DOMAIN q} |->
            q[CHOOSE j \in DOMAIN q : q[j][1] = k][2]]

\* C20: with query in match_on, a request matches a recorded one that differs
\* from it only in the query exactly when both queries map the same keys to the
\* same value lists: a=1&b=2 is matched by b=2&a=1, a=1&a=2 is not by a=2&a=1.
C20_QueryFingerprint ==
    \A l \in Loaders, r \in AllMatchRequests :
        Live(l) =>
            \A i \in 0..(Len(Log(dvd[l])) - 1) :
                LET rec == Log(dvd[l])[i + 1][1]
                IN  (/\ \E k \in DOMAIN dvd[l].match_on : dvd[l].match_on[k] = "query"
                     /\ r.method = rec.method /\ r.headers = rec.headers
                     /\ [r.url EXCEPT !.query = <<>>] = [rec.url EXCEPT !.query = <<>>])
                    => (QueryMap(r) = QueryMap(rec) <=> i \in RecordsIdx(dvd[l], r))

\* ---- The index rebuilt from the entries -----------------------------------
\* What a sequence of lookups returns or raises, one after the other.
RECURSIVE Replay(_, _)
Replay(d, seq) ==
    IF seq = <<>> THEN <<>>
    ELSE LET res == IF seq[1][1] = "get_request"
                    THEN get_request(d, seq[1][2])
                    ELSE get_response(d, seq[1][2])
         IN  <<[ret |-> res.ret, raised |-> res.raised]>> \o Replay(res.dvd, Tail(seq))

LookupSeqs(n) == [1..n -> {"get_request", "get_response"} \X CassetteRequests]

\* A cassette holding d's entries and configuration, nothing indexed yet.
EntriesOnly(d) == DVD(d.recorded_requests, d.from_file, d.match_on, d.extra_matchers)

\* The cassette a loader gets from the file d was saved to.
Reloaded(l, d) ==
    load(l, cfg, [files EXCEPT ![file_path(l)] = model_dump_json(d)])

\* C15: a cassette indexed entry by entry by record_request, a cassette with
\* the same entries indexed by rebuild_index, and the cassette loaded from the
\* saved entries answer every sequence of lookups alike, none of them having
\* an entry consumed at the start.
C15_RebuildEquivalence ==
    \A l \in Loaders :
        (Writable(l) /\ dvd[l].match_counts = <<>>) =>
            \A seq \in LookupSeqs(Len(Log(dvd[l])) + 1) :
                /\ Replay(dvd[l], seq) = Replay(rebuild_index(EntriesOnly(dvd[l])), seq)
                /\ Replay(dvd[l], seq) = Replay(Reloaded(l, dvd[l]), seq)

\* Two entries with one fingerprint and different outcomes were recorded, the
\* second just now; the rebuilt index replays the first, the second, then none.
C15_Witness ==
    /\ Writable("L1") /\ dvd["L1"].match_counts = <<>>
    /\ last.op = "record_request" /\ last.raised = None
    /\ Len(Log(dvd["L1"])) = 2
    /\ MatchingIdx(dvd["L1"], ReqItems) = {0, 1}
    /\ Entry(dvd["L1"], 0) = RespA /\ Entry(dvd["L1"], 1) # RespA
    /\ LET out == Replay(rebuild_index(EntriesOnly(dvd["L1"])),
                         [i \in 1..3 |-> <<"get_request", ReqItems>>])
       IN  out[1].ret = RespA /\ out[2].raised # None /\ out[3] = [ret |-> None, raised |-> None]

\* ---- Scopes, files and the stack ------------------------------------------
\* The with-block of loader l opens / closes in this step.
Opens(l) == scopes' = Append(scopes, l)

Closes(l) == scopes = Append(scopes', l)

\* Every entry can be found through the index, and nothing is consumed.
Indexed(d) ==
    /\ d.match_counts = <<>>
    /\ \A i \in 0..(Len(Log(d)) - 1) : i \in RecordsIdx(d, Log(d)[i + 1][1])

\* C16, what load yields: an empty writable cassette when there is no file, a
\* replay-only one, indexed and not dirty, when there is one.
C16_LoadByFile ==
    \A l \in Loaders :
        LET d == load(l, cfg, files)
        IN  /\ files[file_path(l)] = NoFile =>
                  Log(d) = <<>> /\ ~d.from_file /\ ~d.dirty
            /\ files[file_path(l)].tag = "Json" =>
                  d.from_file /\ ~d.dirty /\ Indexed(d)

\* C16, from scope to scope: a file that is written holds the cassette's
\* entries in recording order and is never removed; a with-block opens on a
\* replay-only cassette holding the file's entries when the file exists and on
\* an empty writable one when it does not; a with-block that recorded and ended
\* normally leaves a file, one that recorded nothing leaves none.
C16_ScopeToScope ==
    \A l \in Loaders :
        LET p == file_path(l)
        IN  /\ (files'[p] # files[p] /\ files'[p].tag = "Json") =>
                  Log(load(l, cfg, files')) = Log(dvd[l])
            /\ files[p] # NoFile => files'[p] # NoFile
            /\ Opens(l) =>
                  IF files[p] = NoFile
                  THEN ~dvd'[l].from_file /\ Log(dvd'[l]) = <<>>
                  ELSE /\ dvd'[l].from_file
                       /\ Log(dvd'[l]) = Log(model_validate_json(files[p]))
            /\ (Closes(l) /\ last'.req = ExcInfo(FALSE) /\ last'.raised = None) =>
                  IF Log(dvd[l]) # <<>> THEN files'[p].tag = "Json"
                  ELSE files'[p] = NoFile

Ends(l) == Closes(l) \/ Closes(ReusableScope(l))

\* The cassette of l is saved in this step: its entries are in the file and
\* its dirty flag is cleared; or the save raised and the flag is still set.
Persisted(l) ==
    \/ /\ files'[file_path(l)] = model_dump_json(dvd[l])
       /\ Log(model_validate_json(files'[file_path(l)])) = Log(dvd[l])
       /\ dvd'[l] = [dvd[l] EXCEPT !.dirty = FALSE]
    \/ /\ last'.raised # None
       /\ dvd'[l] = dvd[l]

NotSaved(l) == files' = files /\ dvd'[l] = dvd[l]

\* C17 as stated: whenever a scope ends, its cassette is saved if it is dirty
\* and no save is performed if it is not.
C17_PersistWhenDirty ==
    [][\A l \in Loaders :
          Ends(l) => IF dvd[l].dirty THEN Persisted(l) ELSE NotSaved(l)]_vars

\* C17, amended: when a scope ends and its cassette is dirty, the cassette is
\* saved, unless the scope is a with-block whose body raised; no save is
\* performed when the cassette is not dirty or the body of the with-block raised.
C17_PersistWhenDirtyAndCompleted ==
    [][\A l \in Loaders :
          /\ Closes(l) =>
                IF dvd[l].dirty /\ last'.req = ExcInfo(FALSE)
                THEN Persisted(l) ELSE NotSaved(l)
          /\ Closes(ReusableScope(l)) =>
                IF dvd[l].dirty THEN Persisted(l) ELSE NotSaved(l)]_vars

\* A with-block that recorded an entry has ended by an exception of its body:
\* the cassette is still dirty and there is no file.
C17_Witness ==
    /\ last.op = "exit" /\ last.l = "L1" /\ last.req = ExcInfo(TRUE)
    /\ scopes = <<>>
    /\ Len(Log(dvd["L1"])) = 1 /\ dvd["L1"].dirty
    /\ files[file_path("L1")] = NoFile

\* C18: every cassette a scope entry pushed is popped when that scope ends, on
\* every exit path and for both kinds of scope: the stack holds exactly the
\* cassettes of the open scopes, in their order, and is empty when none is open.
C18_GuaranteedPop ==
    /\ Len(stack) = Len(scopes)
    /\ \A i \in 1..Len(scopes) : scopes[i] \in {stack[i], ReusableScope(stack[i])}

\* C19: a cassette is popped only when it is the top of the stack, and then
\* the top alone is removed; popping a cassette that is not the top raises
\* PopMismatch and leaves the stack as it was.
C19_PopDiscipline ==
    [][\A l \in Loaders :
          Ends(l) =>
              /\ stack' # stack =>
                    /\ PopOk(stack, l)
                    /\ stack' = SubSeq(stack, 1, Len(stack) - 1)
                    /\ last'.raised = None \/ last'.raised.cls # "PopMismatch"
              /\ ~PopOk(stack, l) =>
                    /\ stack' = stack
                    /\ last'.raised # None
                    /\ \/ last'.raised.cls = "PopMismatch"
                       \/ Closes(ReusableScope(l)) /\ last'.raised.cls = "OSError"]_vars

\* The with-block of L1 has ended while the cassette of L2 was on top of the
\* stack: the pop raised PopMismatch and both cassettes are still on the stack.
C19_Witness ==
    /\ last.op = "exit" /\ last.l = "L1"
    /\ last.raised # None /\ last.raised.cls = "PopMismatch"
    /\ stack = <<"L1", "L2">>
    /\ scopes = <<>>

\* ---- Index, log and consumption counters ----------------------------------
\* The index of d holds, for each log position, exactly one triple, equal to
\* the log's pair at that position, under that request's fingerprint; it holds
\* nothing else, and every bucket is in ascending sequence index.
IndexReflectsLog(d) ==
    /\ \A i \in 0..(Len(Log(d)) - 1) :
          LET req == Log(d)[i + 1][1]
              b == Bucket(d.hashed_requests, _get_request_key(d, req))
          IN  Cardinality({k \in DOMAIN b : b[k] = <<i, req, Log(d)[i + 1][2]>>}) = 1
    /\ \A key \in DOMAIN d.hashed_requests :
          LET b == d.hashed_requests[key]
          IN  /\ \A k \in DOMAIN b :
                    /\ b[k][1] \in 0..(Len(Log(d)) - 1)
                    /\ <<b[k][2], b[k][3]>> = Log(d)[b[k][1] + 1]
                    /\ _get_request_key(d, b[k][2]) = key
              /\ \A j \in DOMAIN b, k \in DOMAIN b : j < k => b[j][1] < b[k][1]

IsPrefix(s, t) == Len(s) <= Len(t) /\ SubSeq(t, 1, Len(s)) = s

\* C21: in every reachable cassette state, a cassette constructed directly
\* with entries included, the index holds exactly one triple per log position,
\* equal to the log's pair there, under the fingerprint of its request, every
\* bucket ascending; and the log only grows, so that a sequence index stays
\* the position of its entry.
C21_IndexLogConsistency ==
    /\ [](\A l \in Loaders : Live(l) => IndexReflectsLog(dvd[l]))
    /\ [][\A l \in Loaders :
             (Live(l) /\ Live(l)') => IsPrefix(Log(dvd[l]), Log(dvd'[l]))]_vars

\* The log indices n successive get_request calls for r hit (-1: not found).
RECURSIVE Hits(_, _, _)
Hits(d, r, n) ==
    IF n = 0 THEN <<>>
    ELSE LET res == get_request(d, r)
         IN  <<res.hit>> \o Hits(res.dvd, r, n - 1)

\* The elements of a set of numbers in ascending order.
RECURSIVE Ascending(_)
Ascending(S) ==
    IF S = {} THEN <<>> ELSE <<Min(S)>> \o Ascending(S \ {Min(S)})

LogIdx(d) == 0..(Len(Log(d)) - 1)

\* Every counter is 0 or 1 and belongs to an entry; and once the index is
\* rebuilt, successive lookups replay every matching entry once, in order.
C22_CounterBound ==
    \A l \in Loaders :
        Live(l) =>
            /\ DOMAIN dvd[l].match_counts \subseteq LogIdx(dvd[l])
            /\ \A i \in LogIdx(dvd[l]) : MatchCount(dvd[l], i) \in {0, 1}
            /\ \A r \in Requests :
                  LET d == rebuild_index(dvd[l])
                      due == MatchingIdx(d, r)
                  IN  /\ \A i \in LogIdx(d) : MatchCount(d, i) = 0
                      /\ Hits(d, r, Cardinality(due) + 1) = Ascending(due) \o <<-1>>

\* A counter goes from 0 to 1 only by a lookup that gives that entry, and from
\* 1 to 0 only by rebuild_index, which leaves every counter at 0.
C22_CounterSteps ==
    \A l \in Loaders :
        (Live(l) /\ Live(l)') =>
            \A i \in LogIdx(dvd[l]) :
                /\ (MatchCount(dvd[l], i) = 0 /\ MatchCount(dvd'[l], i) = 1) =>
                      /\ last'.op \in {"get_request", "get_response"} /\ last'.l = l
                      /\ Gives(last', Entry(dvd[l], i))
                      /\ served'[l].cur = served[l].cur \cup {i}
                /\ (MatchCount(dvd[l], i) = 1 /\ MatchCount(dvd'[l], i) = 0) =>
                      /\ last'.op = "rebuild_index" /\ last'.l = l
                      /\ \A j \in LogIdx(dvd'[l]) : MatchCount(dvd'[l], j) = 0

\* C22: each entry's consumption counter is 0 or 1; it goes from 0 to 1 only
\* by a lookup that returns that entry, and back to 0 only by rebuild_index,
\* which resets all counters, so that the entries consumed before the rebuild
\* are replayed once more after it.
C22_CounterBoundAndReset == []C22_CounterBound /\ [][C22_CounterSteps]_vars

\* An entry was replayed, the index was rebuilt, and the same entry has just
\* been replayed once more.
C22_Witness ==
    /\ Live("L1") /\ Len(Log(dvd["L1"])) = 1
    /\ served["L1"].past = {0} /\ served["L1"].cur = {0}
    /\ MatchCount(dvd["L1"], 0) = 1
    /\ last.op = "get_request" /\ last.ret = Entry(dvd["L1"], 0)

\* C23: rebuild_index called twice in a row leaves the index and the counters
\* that calling it once leaves, and it changes neither the entry log nor the
\* mode nor the dirty flag.
C23_RebuildIdempotent ==
    \A l \in Loaders :
        Live(l) =>
            LET once == rebuild_index(dvd[l])
                twice == rebuild_index(once)
            IN  /\ twice.hashed_requests = once.hashed_requests
                /\ twice.match_counts = once.match_counts
                /\ twice = once
                /\ Log(once) = Log(dvd[l])
                /\ once.from_file = dvd[l].from_file
                /\ once.dirty = dvd[l].dirty

\* On a replay-only cassette whose entry had been replayed, rebuild_index has
\* just been called: nothing is consumed and another call changes nothing.
C23_Witness ==
    /\ Live("L1") /\ dvd["L1"].from_file
    /\ Len(Log(dvd["L1"])) = 1
    /\ served["L1"].past = {0} /\ served["L1"].cur = {}
    /\ last.op = "rebuild_index"
    /\ rebuild_index(dvd["L1"]) = dvd["L1"]

\* ---- Selection within a bucket ---------------------------------------------
\* The bucket the index holds for the fingerprint of r.
BucketOf(d, r) == Bucket(d.hashed_requests, _get_request_key(d, r))

\* The positions of the bucket whose entry passes every extra matcher for r
\* and is not consumed.
Eligible(d, r) ==
    {k \in DOMAIN BucketOf(d, r) :
        /\ AllExtra(d, BucketOf(d, r)[k][2], r)
        /\ MatchCount(d, BucketOf(d, r)[k][1]) = 0}

\* C24: get_request gives the earliest entry of the fingerprint bucket that is
\* not consumed and passes every extra matcher (recorded request, incoming
\* request), and none when there is no such entry; an entry of the bucket that
\* fails an extra matcher is skipped, its counter is left as it was, and, if
\* not consumed, it is given by a later lookup for its own request.
C24_ExtraMatchersGate ==
    \A l \in Loaders, r \in Requests :
        Live(l) =>
            LET d == dvd[l]
                b == BucketOf(d, r)
                res == get_request(d, r)
            IN  /\ Eligible(d, r) = {} => NotFound(res) /\ res.hit = -1 /\ res.dvd = d
                /\ Eligible(d, r) # {} =>
                      LET k == Min(Eligible(d, r))
                      IN  /\ res.hit = b[k][1] /\ Gives(res, b[k][3])
                          /\ MatchCount(res.dvd, b[k][1]) = 1
                /\ \A j \in DOMAIN b :
                      ~AllExtra(d, b[j][2], r) =>
                          /\ res.hit # b[j][1]
                          /\ MatchCount(res.dvd, b[j][1]) = MatchCount(d, b[j][1])
                          /\ MatchCount(d, b[j][1]) = 0 =>
                                \E n \in 1..Len(b) :
                                    Hits(res.dvd, b[j][2], Len(b))[n] = b[j][1]

\* With the same_query matcher, /items and then /items?a=1 were recorded under
\* one fingerprint; a lookup for /items?a=1 has just been given the second
\* entry, and the first is not consumed.
C24_Witness ==
    /\ Live("L1") /\ cfg.extra_matchers = <<"same_query">>
    /\ Len(Log(dvd["L1"])) = 2
    /\ Len(BucketOf(dvd["L1"], ReqItemsQ)) = 2
    /\ Log(dvd["L1"])[1][1] = ReqItems /\ Log(dvd["L1"])[2] = <<ReqItemsQ, RespA>>
    /\ last.op = "get_request" /\ last.req = ReqItemsQ /\ last.ret = RespA
    /\ served["L1"].cur = {1}
    /\ MatchCount(dvd["L1"], 0) = 0 /\ MatchCount(dvd["L1"], 1) = 1

\* ---- Concurrent recording ----------------------------------------------------
\* The triples of the index, each with the bucket and the place it is at.
Triples(d) ==
    UNION {{<<key, k>> : k \in DOMAIN d.hashed_requests[key]} :
              key \in DOMAIN d.hashed_requests}

TripleAt(d, kk) == d.hashed_requests[kk[1]][kk[2]]

Quiescent == \A t \in Threads : calls[t] = NoCall

\* C25: when record_request calls of separate threads on one writable cassette
\* have run interleaved statement by statement and all have returned, every
\* index triple carries a sequence index of its own, the log position of its
\* entry.
C25_UniqueIndicesConcurrent ==
    \A l \in Loaders :
        (Live(l) /\ Quiescent) =>
            /\ \A a \in Triples(dvd[l]), b \in Triples(dvd[l]) :
                  a # b => TripleAt(dvd[l], a)[1] # TripleAt(dvd[l], b)[1]
            /\ \A a \in Triples(dvd[l]) :
                  LET t == TripleAt(dvd[l], a)
                  IN  /\ t[1] \in LogIdx(dvd[l])
                      /\ Log(dvd[l])[t[1] + 1] = <<t[2], t[3]>>

\* ---- What a lookup changes ---------------------------------------------------
\* The lookup with result res on cassette d changed nothing but counters.
OnlyCounters(d, res) == res.dvd = [d EXCEPT !.match_counts = res.dvd.match_counts]

LookupFrame(d, res) ==
    /\ OnlyCounters(d, res)
    /\ Log(res.dvd) = Log(d)
    /\ res.dvd.from_file = d.from_file
    /\ res.dvd.dirty = d.dirty
    /\ IF NotFound(res)
       THEN \A i \in LogIdx(d) : MatchCount(res.dvd, i) = MatchCount(d, i)
       ELSE /\ res.hit \in LogIdx(d)
            /\ MatchCount(res.dvd, res.hit) = MatchCount(d, res.hit) + 1
            /\ \A i \in LogIdx(d) \ {res.hit} : MatchCount(res.dvd, i) = MatchCount(d, i)
            /\ DOMAIN res.dvd.match_counts \subseteq LogIdx(d)

\* C26: get_request and get_response change neither the entry log nor the
\* mode nor the dirty flag; a lookup that finds nothing leaves every counter
\* as it was, and a lookup that gives an entry changes the counter of that
\* entry and of no other.
C26_LookupFrame ==
    \A l \in Loaders, r \in Requests :
        Live(l) =>
            /\ LookupFrame(dvd[l], get_request(dvd[l], r))
            /\ LookupFrame(dvd[l], get_response(dvd[l], r))

\* Two entries with one fingerprint were recorded on a writable cassette; a
\* lookup has just been given the first: its counter is 1, the other's 0, and
\* the cassette is as dirty as it was.
C26_Witness ==
    /\ Writable("L1") /\ dvd["L1"].dirty
    /\ Len(Log(dvd["L1"])) = 2
    /\ MatchingIdx(dvd["L1"], ReqItems) = {0, 1}
    /\ last.op \in {"get_request", "get_response"} /\ last.req = ReqItems
    /\ last.ret = Entry(dvd["L1"], 0)
    /\ MatchCount(dvd["L1"], 0) = 1 /\ MatchCount(dvd["L1"], 1) = 0

\* ---- get_response and captured failures --------------------------------------
\* The matching entries of d for r that are not consumed.
Unconsumed(d, r) == {i \in MatchingIdx(d, r) : MatchCount(d, i) = 0}

\* C27: get_response returns the earliest matching entry that is not consumed
\* and whose outcome is a Response, and None when there is none; the matching
\* captured failures it passes over keep their counter, and a failure that is
\* not consumed is still raised by a later get_request for the same request.
C27_ResponseSkipsFailures ==
    \A l \in Loaders, r \in Requests :
        Live(l) =>
            LET d == dvd[l]
                res == get_response(d, r)
                responses == {i \in Unconsumed(d, r) : Entry(d, i).tag = "Response"}
                failures == {i \in Unconsumed(d, r) : Entry(d, i).tag # "Response"}
            IN  /\ res.raised = None
                /\ IF responses = {} THEN res.ret = None /\ res.hit = -1 /\ res.dvd = d
                   ELSE /\ res.hit = Min(responses)
                        /\ res.ret = Entry(d, Min(responses))
                /\ \A i \in failures :
                      /\ MatchCount(res.dvd, i) = 0
                      /\ \E n \in 1..Cardinality(Unconsumed(d, r)) :
                            Hits(res.dvd, r, n)[n] = i
                /\ failures # {} =>
                      LET next == get_request(res.dvd, r)
                          f == Min(Unconsumed(res.dvd, r))
                      IN  /\ next.hit = f
                          /\ Min(failures) < Min(responses \cup {Len(Log(d))}) =>
                                /\ f = Min(failures)
                                /\ next.ret = None
                                /\ next.raised = Reconstruct(Entry(d, f))

\* A failure and then a response were recorded for one request; get_response
\* gave the response and left the failure, and get_request has just raised it.
C27_Witness ==
    /\ Live("L1") /\ Len(Log(dvd["L1"])) = 2
    /\ MatchingIdx(dvd["L1"], ReqItems) = {0, 1}
    /\ Entry(dvd["L1"], 0).tag = "RequestExceptionInfo" /\ Entry(dvd["L1"], 1) = RespA
    /\ served["L1"].cur = {0, 1}
    /\ last.op = "get_request" /\ last.req = ReqItems
    /\ last.ret = None /\ last.raised = ConnFailed

\* ---- Consumption from scope to scope ------------------------------------------
\* Nothing of d is consumed, and successive lookups for any request replay
\* each of its matching entries once, in recording order, and then find none.
ReplaysEachOnce(d) ==
    /\ \A i \in LogIdx(d) : MatchCount(d, i) = 0
    /\ \A r \in Requests :
          Hits(d, r, Cardinality(MatchingIdx(d, r)) + 1)
              = Ascending(MatchingIdx(d, r)) \o <<-1>>

\* What load gives for the file as it is now, whatever was consumed before.
C28_LoadStartsUnconsumed ==
    \A l \in Loaders :
        files[file_path(l)].tag = "Json" =>
            LET d == load(l, cfg, files)
            IN  /\ Log(d) = Log(model_validate_json(files[file_path(l)]))
                /\ ReplaysEachOnce(d)

\* A with-block that opens on an existing file starts on such a cassette.
C28_ScopeStartsUnconsumed ==
    \A l \in Loaders :
        (Opens(l) /\ files[file_path(l)].tag = "Json") =>
            /\ Log(dvd'[l]) = Log(model_validate_json(files[file_path(l)]))
            /\ ReplaysEachOnce(dvd'[l])
            /\ served'[l].cur = {}

\* C28: consumption is not persisted: every load of an existing file gives a
\* cassette with all counters at 0, so that every scope that opens by loading
\* the file replays each persisted entry once, however often the entry was
\* consumed in earlier scopes.
C28_ConsumptionNotPersisted ==
    []C28_LoadStartsUnconsumed /\ [][C28_ScopeStartsUnconsumed]_vars

\* A replay-only scope in which the persisted entry was replayed has ended;
\* the cassette just left has the entry consumed, and loading the file again
\* gives one that replays it.
C28_Witness ==
    /\ scopes = <<>> /\ last.op = "exit"
    /\ Live("L1") /\ dvd["L1"].from_file
    /\ Len(Log(dvd["L1"])) = 1
    /\ MatchCount(dvd["L1"], 0) = 1 /\ served["L1"].cur = {0}
    /\ files[file_path("L1")].tag = "Json"
    /\ get_request(load("L1", cfg, files), Log(dvd["L1"])[1][1]).hit = 0

====
